---------------------------- MODULE Spec2Model ----------------------------
(***************************************************************************)
(* A model of the blobs simulation: the keyed arena (keyed_set.rs), the    *)
(* collision world (physics.rs) and the simulation engine (simulation.rs). *)
(*                                                                         *)
(* Numbers.  The program computes in f32.  The model computes in integers: *)
(* lengths are in units of 0.01 (so that the selection probe's radius 0.01 *)
(* is 1 and Food::RADIUS 5.0 is 500), times and hunger are in whole        *)
(* seconds.  An Option<T> is a sequence of length at most one: << >> is    *)
(* None and <<v>> is Some(v).  A HashMap is a function on its key set; the *)
(* order in which a HashMap is traversed is a nondeterministic choice.     *)
(***************************************************************************)
EXTENDS Integers, Sequences, FiniteSets, TLC

VARIABLES
    kset,       \* a KeyedSet<&str> on its own (keyed_set.rs)
    ksLog,      \* history: every <<key, value>> an insert returned, in order
    ksRetired,  \* history: the issued keys that remove was called with
    physics,    \* physics::World  {circles, collision_matrix}
    colls,      \* the result of the last World::collisions() call (an Option)
    size,       \* Simulation.size
    blobs,      \* Simulation.blobs   : KeyedSet<Blob>
    foods,      \* Simulation.foods   : KeyedSet<Food>
    objects,    \* Simulation.objects : HashMap<Key<Circle>, CircleObject>
    calls,      \* history: how often the driver called insert_food, and step or select
    last        \* history: what the last public operation did

vars == <<kset, ksLog, ksRetired, physics, colls, size, blobs, foods, objects, calls, last>>

ksVars == <<kset, ksLog, ksRetired>>
worldVars == <<physics, colls>>
simVars == <<size, blobs, foods, objects, calls, last>>

None == << >>
Some(v) == <<v>>
IsSome(o) == Len(o) = 1
Unwrap(o) == o[1]

Max(a, b) == IF a >= b THEN a ELSE b
Min(a, b) == IF a <= b THEN a ELSE b
Abs(a) == IF a >= 0 THEN a ELSE 0 - a

(***************************************************************************)
(* keyed_set.rs                                                            *)
(***************************************************************************)

\* Bound: the number of keys one arena issues in a run (usize cannot wrap
\* within it).
MaxKeys == 4

EmptyMap == [k \in {} |-> 0]

KeyedSet_new == [map |-> EmptyMap, next |-> 0]

\* A generate_key that numbers by the current length, as a Vec index would:
\* it hands a key out again once the arena has lost entries.
generate_key_by_len(ks) ==
    [key |-> Cardinality(DOMAIN ks.map), set |-> ks]

\* let key = self.next; self.next.0 += 1; key
generate_key(ks) ==
    [key |-> ks.next, set |-> [ks EXCEPT !.next = ks.next + 1]]

MapInsert(m, k, v) == [x \in DOMAIN m \cup {k} |-> IF x = k THEN v ELSE m[x]]
MapRemove(m, k) == [x \in DOMAIN m \ {k} |-> m[x]]
MapGet(m, k) == IF k \in DOMAIN m THEN Some(m[k]) ELSE None

\* let key = self.generate_key(); self.map.insert(key, value); key
insert(ks, value) ==
    LET g == generate_key(ks)
    IN  [key |-> g.key, set |-> [g.set EXCEPT !.map = MapInsert(g.set.map, g.key, value)]]

get(ks, key) == MapGet(ks.map, key)

\* self.map.remove(&key)
remove(ks, key) ==
    [value |-> MapGet(ks.map, key), set |-> [ks EXCEPT !.map = MapRemove(ks.map, key)]]

len(ks) == Cardinality(DOMAIN ks.map)

Keys(ks) == DOMAIN ks.map

(***************************************************************************)
(* physics.rs                                                              *)
(***************************************************************************)

RECURSIVE Pow2(_)
Pow2(n) == IF n = 0 THEN 1 ELSE 2 * Pow2(n - 1)

\* Layer::new(num): the bits 1u32 << num.
Layer_new(num) == Pow2(num)

LayerMask_empty == 0

\* LayerMask::contains: (self.0 & layer.0) != 0, layer a single bit.
LayerMask_contains(mask, layer) == (mask \div layer) % 2 = 1

\* LayerMask::add: self.0 |= bits.
LayerMask_add(mask, layer) ==
    IF LayerMask_contains(mask, layer) THEN mask ELSE mask + layer

RECURSIVE LayerMask_new(_)
LayerMask_new(layers) ==
    IF layers = << >> THEN LayerMask_empty
    ELSE LayerMask_add(LayerMask_new(Tail(layers)), Head(layers))

Vec2(x, y) == [x |-> x, y |-> y, nan |-> FALSE]

\* A Vector2 whose components are NaN (0./0. in math::slerp); every
\* arithmetic result on it is NaN and every comparison with it is false.
NaNVec == [x |-> 0, y |-> 0, nan |-> TRUE]
IsNaN(a) == a.nan

Vadd(a, b) == IF IsNaN(a) \/ IsNaN(b) THEN NaNVec ELSE Vec2(a.x + b.x, a.y + b.y)
Vsub(a, b) == IF IsNaN(a) \/ IsNaN(b) THEN NaNVec ELSE Vec2(a.x - b.x, a.y - b.y)
Vscale(a, k) == IF IsNaN(a) THEN NaNVec ELSE Vec2(a.x * k, a.y * k)
Vzero == Vec2(0, 0)

Circle(center, radius, layer) == [center |-> center, radius |-> radius, layer |-> layer]

\* (other.center.x - self.center.x).abs() <= self.radius + other.radius
intersects_x_axis(self, other) ==
    /\ ~IsNaN(self.center) /\ ~IsNaN(other.center)
    /\ Abs(other.center.x - self.center.x) <= self.radius + other.radius

\* An intersection test that forgets the other circle's radius.
intersects_own_radius(self, other) ==
    /\ ~IsNaN(self.center) /\ ~IsNaN(other.center)
    /\ LET d == Vsub(other.center, self.center)
       IN  d.x * d.x + d.y * d.y <= self.radius * self.radius

\* (other.center - self.center).length_sqr() <= (self.radius + other.radius)^2
intersects(self, other) ==
    /\ ~IsNaN(self.center) /\ ~IsNaN(other.center)
    /\ LET d == Vsub(other.center, self.center)
       IN  d.x * d.x + d.y * d.y
               <= (self.radius + other.radius) * (self.radius + other.radius)

World_new(collision_matrix) ==
    [circles |-> KeyedSet_new, collision_matrix |-> collision_matrix]

\* A layers_collide that looks the mask up under the right circle's layer.
layers_collide_swapped(collision_matrix, left, right) ==
    IF right.layer \notin DOMAIN collision_matrix THEN TRUE
    ELSE LayerMask_contains(collision_matrix[right.layer], left.layer)

\* A layers_collide that holds when either circle's mask has the other's
\* layer.
layers_collide_either(collision_matrix, left, right) ==
    \/ left.layer \notin DOMAIN collision_matrix
    \/ LayerMask_contains(collision_matrix[left.layer], right.layer)
    \/ /\ right.layer \in DOMAIN collision_matrix
       /\ LayerMask_contains(collision_matrix[right.layer], left.layer)

\* match collision_matrix.get(&left.layer) { None => true,
\*     Some(layer_mask) => layer_mask.contains(&right.layer) }
layers_collide(collision_matrix, left, right) ==
    IF left.layer \notin DOMAIN collision_matrix THEN TRUE
    ELSE LayerMask_contains(collision_matrix[left.layer], right.layer)

SeqRange(s) == {s[i] : i \in 1..Len(s)}

\* A narrow phase that lists the partners from the last of the group to the
\* first.
collisions_naive_backwards(collision_matrix, cs, group) ==
    LET backwards == [i \in 1..Len(group) |-> group[Len(group) + 1 - i]]
        collided(key) ==
            SelectSeq(backwards, LAMBDA other_key :
                /\ other_key # key
                /\ intersects(cs[key], cs[other_key])
                /\ layers_collide(collision_matrix, cs[key], cs[other_key]))
        hit == {key \in SeqRange(group) : Len(collided(key)) > 0}
    IN  [key \in hit |-> collided(key)]

\* The all-pairs narrow phase on one group: `group` is a sequence of keys of
\* `cs` (the circles' map); each key with a partner maps to its partners in
\* the group's order.
collisions_naive(collision_matrix, cs, group) ==
    LET collided(key) ==
            SelectSeq(group, LAMBDA other_key :
                /\ other_key # key
                /\ intersects(cs[key], cs[other_key])
                /\ layers_collide(collision_matrix, cs[key], cs[other_key]))
        hit == {key \in SeqRange(group) : Len(collided(key)) > 0}
    IN  [key \in hit |-> collided(key)]

\* The orders circles.sort_by(center.x) can leave the circles in: the sort
\* is stable and the HashMap hands the circles over in any order, so circles
\* with equal center.x come in any order.
RECURSIVE SortedOrders(_, _)
SortedOrders(cs, keys) ==
    IF keys = {} THEN {<< >>}
    ELSE LET least == {k \in keys : \A j \in keys : cs[k].center.x <= cs[j].center.x}
         IN  UNION {{<<k>> \o rest : rest \in SortedOrders(cs, keys \ {k})} : k \in least}

\* The keys S in ascending order.
RECURSIVE Ascending(_)
Ascending(S) ==
    IF S = {} THEN << >>
    ELSE LET least == CHOOSE k \in S : \A j \in S : k <= j
         IN  <<least>> \o Ascending(S \ {least})

\* The sorted orders up to the order inside the partner lists.  Circles with
\* equal center.x overlap each other on the x axis, so once the first of
\* them is placed (into the active interval or a fresh one) the others
\* follow it there: which groups the sweep forms depends on which of them
\* comes first only.  One order is kept per choice of the first circle, the
\* others following by key.
RECURSIVE SortedOrdersByFirst(_, _)
SortedOrdersByFirst(cs, keys) ==
    IF keys = {} THEN {<< >>}
    ELSE LET least == {k \in keys : \A j \in keys : cs[k].center.x <= cs[j].center.x}
         IN  UNION {{<<k>> \o Ascending(least \ {k}) \o rest :
                        rest \in SortedOrdersByFirst(cs, keys \ least)} : k \in least}

\* The sweep over the sorted circles from position i on: the x-candidate
\* groups.  A group of one circle is dropped when it closes, the final group
\* is pushed whatever its length.
RECURSIVE Sweep(_, _, _, _, _)
Sweep(cs, sorted, i, active_interval, x_axis_collisions) ==
    IF i > Len(sorted) THEN Append(x_axis_collisions, active_interval)
    ELSE IF \E j \in 1..Len(active_interval) :
                intersects_x_axis(cs[active_interval[j]], cs[sorted[i]])
         THEN Sweep(cs, sorted, i + 1, Append(active_interval, sorted[i]), x_axis_collisions)
         ELSE Sweep(cs, sorted, i + 1, <<sorted[i]>>,
                    IF Len(active_interval) > 1
                    THEN Append(x_axis_collisions, active_interval)
                    ELSE x_axis_collisions)

MapUnion(f, g) == [k \in DOMAIN f \cup DOMAIN g |-> IF k \in DOMAIN g THEN g[k] ELSE f[k]]

RECURSIVE MergeGroups(_, _, _, _)
MergeGroups(collision_matrix, cs, groups, ret) ==
    IF groups = << >> THEN ret
    ELSE MergeGroups(collision_matrix, cs, Tail(groups),
                     MapUnion(ret, collisions_naive(collision_matrix, cs, Head(groups))))

\* a.1.center.x.partial_cmp(&b.1.center.x).unwrap() panics on a NaN: with
\* two or more circles every circle is compared at least once.
collisions_panics(world) ==
    /\ len(world.circles) >= 2
    /\ \E k \in Keys(world.circles) : IsNaN(world.circles.map[k].center)

\* World::collisions with the circles sorted as `sorted`.
collisions_sorted(world, sorted) ==
    IF len(world.circles) = 0 THEN EmptyMap
    ELSE MergeGroups(world.collision_matrix, world.circles.map,
                     Sweep(world.circles.map, sorted, 2, <<sorted[1]>>, << >>),
                     EmptyMap)

\* Every result World::collisions() can return.
collisions(world) ==
    {collisions_sorted(world, sorted) :
        sorted \in SortedOrders(world.circles.map, Keys(world.circles))}

\* The results World::collisions() can return, one for each way the circles
\* can be grouped: what is left out differs in the order of partner lists.
collisions_by_first(world) ==
    {collisions_sorted(world, sorted) :
        sorted \in SortedOrdersByFirst(world.circles.map, Keys(world.circles))}

(***************************************************************************)
(* simulation.rs: layers and the collision matrix of Simulation::new       *)
(***************************************************************************)

Blob_LAYER == Layer_new(0)
Blob_SIGHT_LAYER == Layer_new(1)
Food_LAYER == Layer_new(2)
SELECTION_LAYER == Layer_new(4)

\* Food::RADIUS = 5., in units of 0.01.
Food_RADIUS == 500

\* The probe circle's radius 0.01 of Simulation::select, in units of 0.01.
SELECT_RADIUS == 1

SimulationMatrix ==
    LET m0 == EmptyMap
        m1 == MapInsert(m0, Blob_LAYER, LayerMask_new(<<Food_LAYER, Blob_LAYER>>))
        m2 == MapInsert(m1, Food_LAYER, LayerMask_empty)
        m3 == MapInsert(m2, Blob_SIGHT_LAYER, LayerMask_new(<<Food_LAYER, Blob_LAYER>>))
    IN  MapInsert(m3, SELECTION_LAYER, LayerMask_new(<<Food_LAYER, Blob_LAYER>>))

(***************************************************************************)
(* math.rs.  Directions are kept on the eight compass points: normalized() *)
(* is the vector of the signs of the components, so that a unit vector     *)
(* stays in the integers.  Angles are compared in steps of 22.5 degrees:   *)
(* an even index 2k is the angle 45k exactly, an odd index 2k+1 is any     *)
(* angle strictly between 45k and 45(k+1).                                 *)
(***************************************************************************)

Sign(a) == IF a > 0 THEN 1 ELSE IF a < 0 THEN 0 - 1 ELSE 0

\* Vector2::normalized: self / self.length(); 0/0 is NaN.
normalized(v) ==
    IF IsNaN(v) \/ (v.x = 0 /\ v.y = 0) THEN NaNVec ELSE Vec2(Sign(v.x), Sign(v.y))

\* Vector2::length_sqr() == 0. (false of a NaN).
length_sqr_is_zero(v) == ~IsNaN(v) /\ v.x = 0 /\ v.y = 0

\* atan2(y, x) for y >= 0, as an index 0..8.
UpperAngleIdx(x, y) ==
    IF y = 0 THEN (IF x >= 0 THEN 0 ELSE 8)
    ELSE IF x > y THEN 1
    ELSE IF x = y THEN 2
    ELSE IF x > 0 THEN 3
    ELSE IF x = 0 THEN 4
    ELSE IF 0 - x < y THEN 5
    ELSE IF 0 - x = y THEN 6
    ELSE 7

\* Vector2::angle_to(other), as raylib computes it and math.rs calls it:
\* atan2(other.y - self.y, other.x - self.x), plus 2 pi when negative.
angle_to(a, b) ==
    LET x == b.x - a.x
        y == b.y - a.y
    IN  IF y >= 0 THEN UpperAngleIdx(x, y) ELSE 16 - UpperAngleIdx(x, 0 - y)

\* let mut angle = a.angle_to(b).to_degrees().abs();
\* if angle > 180. { angle -= 180. }
unsigned_angle_vector2(a, b) ==
    LET angle == angle_to(a, b)
    IN  IF angle > 8 THEN angle - 8 ELSE angle

\* math::slerp at time 0 or 1 (rotation_speed * timestep is 0 or 1 for the
\* rotation speeds and timesteps drawn).  sin(a) is 0 for the angle 0 and
\* the quotients are 0/0; at the angle 180 the f32 sine is not 0.
slerp(start, end, time) ==
    IF IsNaN(start) \/ IsNaN(end) THEN NaNVec
    ELSE IF start = end THEN start
    ELSE IF unsigned_angle_vector2(start, end) = 0 THEN NaNVec
    ELSE IF time = 0 THEN normalized(start)
    ELSE normalized(end)

(***************************************************************************)
(* simulation.rs: Blob and Food.  A colour is its hue in degrees (a        *)
(* multiple of 90, saturation and value 1), which makes color_similarity   *)
(* -1, 0 or 1.  Blob.name and Blob.alive_time, which only draw() reads,    *)
(* are left out.                                                           *)
(***************************************************************************)

\* Food::COLOR (GREEN), as a hue.
Food_COLOR == 90

color_similarity(a, b) ==
    LET v == Abs(a - b)
        angle_difference == IF v <= 180 THEN v ELSE 360 - v
    IN  (180 - 2 * angle_difference) \div 180

ObjBlob(k) == [kind |-> "Blob", key |-> k]
ObjFood(k) == [kind |-> "Food", key |-> k]
ObjBlobSight(k) == [kind |-> "BlobSight", key |-> k]

\* A feed that adds the reduction instead of taking it off.
Blob_feed_adding(b) ==
    [b EXCEPT !.hunger =
        Max((b.hunger + b.hunger_reduction * b.max_hunger) \div (1 + b.hunger_division), 0)]

\* h1 = max( (h0 - hunger_reduction*h_max) / (1 + hunger_division),  0 )
Blob_feed(b) ==
    [b EXCEPT !.hunger =
        Max((b.hunger - b.hunger_reduction * b.max_hunger) \div (1 + b.hunger_division), 0)]

\* An eat that feeds and leaves the Food in the arena.
Blob_eat_keeping(b, fs, food) ==
    [blob |-> Blob_feed(b), foods |-> fs, removed |-> IsSome(get(fs, food))]

\* Blob::eat: self.feed(); foods.remove(food);
Blob_eat(b, fs, food) ==
    LET r == remove(fs, food)
    IN  [blob |-> Blob_feed(b), foods |-> r.set, removed |-> IsSome(r.value)]

\* world.circles.get_mut(key).unwrap().center = value
SetCenter(world, key, value) ==
    [world EXCEPT !.circles.map[key].center = value]

\* A set_pos that moves the body circle and leaves the sight circle behind.
Blob_set_pos_body_only(b, world, value) ==
    [blob |-> [b EXCEPT !.pos = value], world |-> SetCenter(world, b.circle, value)]

\* Blob::set_pos
Blob_set_pos(b, world, value) ==
    [blob |-> [b EXCEPT !.pos = value],
     world |-> SetCenter(SetCenter(world, b.circle, value), b.sight_circle, value)]

\* Blob::set_radius
Blob_set_radius(b, world, value) ==
    [blob |-> [b EXCEPT !.radius = value],
     world |-> [world EXCEPT !.circles.map[b.circle].radius = value]]

\* Blob::set_sight_depth
Blob_set_sight_depth(b, world, value) ==
    [blob |-> [b EXCEPT !.sight_depth = value],
     world |-> [world EXCEPT !.circles.map[b.sight_circle].radius = value]]

\* CircleObject::color
CircleObject_color(obj, bs) ==
    IF obj.kind = "Blob" THEN
        (IF IsSome(get(bs, obj.key)) THEN Some(Unwrap(get(bs, obj.key)).color) ELSE None)
    ELSE IF obj.kind = "Food" THEN Some(Food_COLOR)
    ELSE None

\* The closure of Simulation::step that filters a sight circle's partners:
\* the partner is dropped when outside the blob's POV or without a colour.
Seen(b, cs, objs, bs, collided) ==
    LET visible(key) ==
            /\ ~(  ~IsNaN(cs[key].center) /\ ~IsNaN(b.pos) /\ ~IsNaN(b.direction)
                /\ unsigned_angle_vector2(Vsub(cs[key].center, b.pos), b.direction) * 45
                      > 2 * b.pov )
            /\ IsSome(CircleObject_color(objs[key], bs))
        kept == SelectSeq(collided, visible)
    IN  [i \in 1..Len(kept) |->
            [object |-> objs[kept[i]],
             color |-> Unwrap(CircleObject_color(objs[kept[i]], bs)),
             pos |-> cs[kept[i]].center]]

\* The sum and the count of Blob::prepare_step over seen[i..].
RECURSIVE SteerSum(_, _, _)
SteerSum(b, seen, i) ==
    IF i > Len(seen) THEN [sum |-> Vzero, count |-> 0]
    ELSE LET rest == SteerSum(b, seen, i + 1)
             v0 == color_similarity(b.favorite_color, seen[i].color)
             v == v0 * (IF v0 > 0 THEN b.color_attraction ELSE b.color_repulsion)
             d == Vsub(seen[i].pos, b.pos)
         IN  IF ~length_sqr_is_zero(d)
             THEN [sum |-> Vadd(rest.sum, Vscale(normalized(d), v)),
                   count |-> rest.count + Abs(v)]
             ELSE rest

\* Blob::prepare_step: the BlobStep's target_direction.
prepare_step(b, seen) ==
    LET acc == SteerSum(b, seen, 1)
    IN  IF acc.count = 0 \/ length_sqr_is_zero(acc.sum) THEN None
        ELSE Some(normalized(acc.sum))

\* A comparison of two f32: false when either is NaN.
Gt(v, a, bound) == ~IsNaN(v) /\ a > bound
Lt(v, a, bound) == ~IsNaN(v) /\ a < bound

\* The border step of Blob::step for one edge test: set_pos, set_direction.
Reflect(r, beyond, pos, flipx) ==
    IF beyond
    THEN LET m == Blob_set_pos(r.blob, r.world, pos)
         IN  [blob |-> [m.blob EXCEPT !.direction =
                           IF IsNaN(@) THEN NaNVec
                           ELSE IF flipx THEN Vec2(0 - @.x, @.y) ELSE Vec2(@.x, 0 - @.y)],
              world |-> m.world]
    ELSE r

\* A border step that clamps the position and keeps the direction.
do_border_no_flip(r, world_size) ==
    LET r1 == IF Gt(r.blob.pos, r.blob.pos.x, world_size.x)
              THEN Blob_set_pos(r.blob, r.world, Vec2(world_size.x, r.blob.pos.y)) ELSE r
        r2 == IF Gt(r1.blob.pos, r1.blob.pos.y, world_size.y)
              THEN Blob_set_pos(r1.blob, r1.world, Vec2(r1.blob.pos.x, world_size.y)) ELSE r1
        r3 == IF Lt(r2.blob.pos, r2.blob.pos.x, 0)
              THEN Blob_set_pos(r2.blob, r2.world, Vec2(0, r2.blob.pos.y)) ELSE r2
    IN  IF Lt(r3.blob.pos, r3.blob.pos.y, 0)
        THEN Blob_set_pos(r3.blob, r3.world, Vec2(r3.blob.pos.x, 0)) ELSE r3

\* Blob::step, "do border": the four edges in the order x > w, y > h, x < 0, y < 0.
do_border(r, world_size) ==
    LET r1 == Reflect(r, Gt(r.blob.pos, r.blob.pos.x, world_size.x),
                      Vec2(world_size.x, r.blob.pos.y), TRUE)
        r2 == Reflect(r1, Gt(r1.blob.pos, r1.blob.pos.y, world_size.y),
                      Vec2(r1.blob.pos.x, world_size.y), FALSE)
        r3 == Reflect(r2, Lt(r2.blob.pos, r2.blob.pos.x, 0),
                      Vec2(0, r2.blob.pos.y), TRUE)
    IN  Reflect(r3, Lt(r3.blob.pos, r3.blob.pos.y, 0),
                Vec2(r3.blob.pos.x, 0), FALSE)

\* An update of the direction that turns a blob without a target around.
update_direction_turning(b, target_direction, timestep, random) ==
    IF b.direction = Vzero THEN random
    ELSE IF IsSome(target_direction)
         THEN slerp(b.direction, Unwrap(target_direction), b.rotation_speed * timestep)
         ELSE Vscale(b.direction, 0 - 1)

\* Blob::step, "update direction": `random` is what random_vector2() * 2. - 1.
\* gives when the direction is zero.
update_direction(b, target_direction, timestep, random) ==
    IF b.direction = Vzero THEN random
    ELSE IF IsSome(target_direction)
         THEN slerp(b.direction, Unwrap(target_direction), b.rotation_speed * timestep)
         ELSE b.direction

\* A hunger step that does not count the tick.
do_hunger_skipping(b, timestep) == b

\* Blob::step, "do hunger": self.hunger += timestep
do_hunger(b, timestep) == [b EXCEPT !.hunger = @ + timestep]

\* Blob::step up to "do border": update direction, move position, do hunger.
Blob_integrate(b, target_direction, timestep, world, random) ==
    LET dir == update_direction(b, target_direction, timestep, random)
        pos == Vadd(b.pos, Vscale(dir, b.speed * timestep))
        b1 == [b EXCEPT !.direction = dir, !.pos = pos]
        w1 == SetCenter(SetCenter(world, b.circle, pos), b.sight_circle, pos)
        b2 == do_hunger(b1, timestep)
    IN  [blob |-> b2, world |-> w1]

\* Blob::step
Blob_step(b, target_direction, timestep, world, world_size, random) ==
    do_border(Blob_integrate(b, target_direction, timestep, world, random), world_size)

(***************************************************************************)
(* simulation.rs: Simulation.  A simulation value is the record of its     *)
(* fields {blobs, foods, objects, physics}; `size` never changes.          *)
(***************************************************************************)

Sim(bs, fs, objs, world) == [blobs |-> bs, foods |-> fs, objects |-> objs, physics |-> world]

Simulation_new == Sim(KeyedSet_new, KeyedSet_new, EmptyMap, World_new(SimulationMatrix))

\* Simulation::insert_blob; `p` holds the parameters other than pos.
insert_blob(sim, pos, p) ==
    LET c1 == insert(sim.physics.circles, Circle(pos, p.radius, Blob_LAYER))
        c2 == insert(c1.set, Circle(pos, p.sight_depth, Blob_SIGHT_LAYER))
        blob == [pos |-> pos, radius |-> p.radius, color |-> p.color,
                 speed |-> p.speed, rotation_speed |-> p.rotation_speed,
                 pov |-> p.pov, sight_depth |-> p.sight_depth,
                 favorite_color |-> p.favorite_color,
                 color_attraction |-> p.color_attraction,
                 color_repulsion |-> p.color_repulsion,
                 direction |-> Vzero,
                 circle |-> c1.key, sight_circle |-> c2.key,
                 max_hunger |-> p.max_hunger, hunger |-> 0,
                 attack |-> p.attack, defence |-> p.defence,
                 hunger_reduction |-> p.hunger_reduction,
                 hunger_division |-> p.hunger_division]
        b == insert(sim.blobs, blob)
    IN  [key |-> b.key,
         sim |-> Sim(b.set, sim.foods,
                     MapInsert(MapInsert(sim.objects, c1.key, ObjBlob(b.key)),
                               c2.key, ObjBlobSight(b.key)),
                     [sim.physics EXCEPT !.circles = c2.set])]

\* A remove_blob that takes both circles out of the world and leaves the
\* sight circle's entry in the circle-object map.
remove_blob_keeping_sight_entry(sim, key) ==
    LET r == remove(sim.blobs, key)
    IN  IF IsSome(r.value)
        THEN LET blob == Unwrap(r.value)
             IN  Sim(r.set, sim.foods, MapRemove(sim.objects, blob.circle),
                     [sim.physics EXCEPT !.circles =
                         remove(remove(sim.physics.circles, blob.circle).set,
                                blob.sight_circle).set])
        ELSE Sim(r.set, sim.foods, sim.objects, sim.physics)

\* A remove_blob that takes the circles and the map entries and leaves the
\* blob in its arena.
remove_blob_keeping_blob(sim, key) ==
    LET r == remove(sim.blobs, key)
    IN  IF IsSome(r.value)
        THEN LET blob == Unwrap(r.value)
             IN  Sim(sim.blobs, sim.foods,
                     MapRemove(MapRemove(sim.objects, blob.circle), blob.sight_circle),
                     [sim.physics EXCEPT !.circles =
                         remove(remove(sim.physics.circles, blob.circle).set,
                                blob.sight_circle).set])
        ELSE Sim(r.set, sim.foods, sim.objects, sim.physics)

\* Simulation::remove_blob
remove_blob(sim, key) ==
    LET r == remove(sim.blobs, key)
    IN  IF IsSome(r.value)
        THEN LET blob == Unwrap(r.value)
             IN  Sim(r.set, sim.foods,
                     MapRemove(MapRemove(sim.objects, blob.circle), blob.sight_circle),
                     [sim.physics EXCEPT !.circles =
                         remove(remove(sim.physics.circles, blob.circle).set,
                                blob.sight_circle).set])
        ELSE Sim(r.set, sim.foods, sim.objects, sim.physics)

\* What remove_blob and remove_food return: the entity the arena held.
removed_blob(sim, key) == remove(sim.blobs, key).value
removed_food(sim, key) == remove(sim.foods, key).value

\* Simulation::set_blob_pos
set_blob_pos(sim, key, pos) ==
    IF IsSome(get(sim.blobs, key))
    THEN LET m == Blob_set_pos(sim.blobs.map[key], sim.physics, pos)
         IN  Sim([sim.blobs EXCEPT !.map[key] = m.blob], sim.foods, sim.objects, m.world)
    ELSE sim

\* get_blob_mut(key) and, on Some, the blob and the world a setter of Blob
\* called with the simulation's world left: m is the setter's outcome.
get_blob_mut(sim, key, m) ==
    IF IsSome(get(sim.blobs, key))
    THEN Sim([sim.blobs EXCEPT !.map[key] = m.blob], sim.foods, sim.objects, m.world)
    ELSE sim

\* Simulation::insert_food
insert_food(sim, pos) ==
    LET c == insert(sim.physics.circles, Circle(pos, Food_RADIUS, Food_LAYER))
        f == insert(sim.foods, [pos |-> pos, circle |-> c.key])
    IN  [key |-> f.key,
         sim |-> Sim(sim.blobs, f.set, MapInsert(sim.objects, c.key, ObjFood(f.key)),
                     [sim.physics EXCEPT !.circles = c.set])]

\* A remove_food that takes the circle and its entry and leaves the Food in
\* its arena.
remove_food_keeping_food(sim, key) ==
    LET r == remove(sim.foods, key)
    IN  IF IsSome(r.value)
        THEN LET food == Unwrap(r.value)
             IN  Sim(sim.blobs, sim.foods, MapRemove(sim.objects, food.circle),
                     [sim.physics EXCEPT !.circles = remove(sim.physics.circles, food.circle).set])
        ELSE Sim(sim.blobs, r.set, sim.objects, sim.physics)

\* Simulation::remove_food
remove_food(sim, key) ==
    LET r == remove(sim.foods, key)
    IN  IF IsSome(r.value)
        THEN LET food == Unwrap(r.value)
             IN  Sim(sim.blobs, r.set, MapRemove(sim.objects, food.circle),
                     [sim.physics EXCEPT !.circles = remove(sim.physics.circles, food.circle).set])
        ELSE Sim(sim.blobs, r.set, sim.objects, sim.physics)

\* collisions.get(&key): the partners, none when the key has no entry.
Touched(snapshot, key) == IF key \in DOMAIN snapshot THEN snapshot[key] ELSE << >>

IsObj(objs, circle, kind) == circle \in DOMAIN objs /\ objs[circle].kind = kind

\* Simulation::step, "prepare blob steps": each blob's target direction.
prepare_blob_steps(sim, snapshot) ==
    [key \in Keys(sim.blobs) |->
        LET blob == sim.blobs.map[key]
        IN  prepare_step(blob, Seen(blob, sim.physics.circles.map, sim.objects, sim.blobs,
                                    Touched(snapshot, blob.sight_circle)))]

\* The inner loop of "blobs eating" for one blob over touched[j..]: `acc`
\* is {blob, foods, log}.
RECURSIVE EatTouched(_, _, _, _, _)
EatTouched(key, touched, j, objs, acc) ==
    IF j > Len(touched) THEN acc
    ELSE IF IsObj(objs, touched[j], "Food")
         THEN LET e == Blob_eat(acc.blob, acc.foods, objs[touched[j]].key)
              IN  EatTouched(key, touched, j + 1, objs,
                      [blob |-> e.blob, foods |-> e.foods,
                       log |-> Append(acc.log,
                                  [blob |-> key, food |-> objs[touched[j]].key,
                                   removed |-> e.removed,
                                   hunger_before |-> acc.blob.hunger,
                                   hunger_after |-> e.blob.hunger])])
         ELSE EatTouched(key, touched, j + 1, objs, acc)

\* Simulation::step, "blobs eating", the blobs taken in the order `order`:
\* `acc` is {blobs, foods, log}.
RECURSIVE blobs_eating(_, _, _, _, _)
blobs_eating(order, i, objs, snapshot, acc) ==
    IF i > Len(order) THEN acc
    ELSE LET key == order[i]
             blob == acc.blobs[key]
             e == EatTouched(key, Touched(snapshot, blob.circle), 1, objs,
                             [blob |-> blob, foods |-> acc.foods, log |-> acc.log])
         IN  blobs_eating(order, i + 1, objs, snapshot,
                 [blobs |-> [acc.blobs EXCEPT ![key] = e.blob],
                  foods |-> e.foods, log |-> e.log])

\* The blobs whose body circle touches a circle tagged Food.
Eaters(bmap, objs, snapshot) ==
    {key \in DOMAIN bmap :
        \E j \in 1..Len(Touched(snapshot, bmap[key].circle)) :
            IsObj(objs, Touched(snapshot, bmap[key].circle)[j], "Food")}

\* Fights that keep the pair as found, (blob, other): a pair in contact is
\* then recorded twice.
fights_ordered(bmap, objs, snapshot) ==
    {<<key, objs[c].key>> :
        <<key, c>> \in {<<k, t>> \in (DOMAIN bmap) \X (DOMAIN objs) :
                          /\ t \in SeqRange(Touched(snapshot, bmap[k].circle))
                          /\ objs[t].kind = "Blob"}}

\* Fights between every two blobs, in contact in the snapshot or not.
fights_all(bmap, objs, snapshot) ==
    {<<Min(a, b), Max(a, b)>> : <<a, b>> \in {<<k, j>> \in (DOMAIN bmap) \X (DOMAIN bmap) : k # j}}

\* Simulation::step, "blobs fighting": the set of pairs (min, max).
fights(bmap, objs, snapshot) ==
    {<<Min(key, objs[c].key), Max(key, objs[c].key)>> :
        <<key, c>> \in {<<k, t>> \in (DOMAIN bmap) \X (DOMAIN objs) :
                          /\ t \in SeqRange(Touched(snapshot, bmap[k].circle))
                          /\ objs[t].kind = "Blob"}}

\* A combat test that ignores the defender's hunger.
defeats_ignoring_hunger(attacker, defender) ==
    attacker.attack > defender.defence

\* attacker.attack > defender.defence * (1. - defender.hunger / defender.max_hunger),
\* both sides multiplied by max_hunger, which is positive.
defeats(attacker, defender) ==
    attacker.attack * defender.max_hunger
        > defender.defence * (defender.max_hunger - defender.hunger)

\* A combat round that only lets the first blob of a pair attack.
combat_one_way(bmap, pairs) ==
    LET defeated == {k \in DOMAIN bmap :
            \E f \in pairs : f[2] = k /\ defeats(bmap[f[1]], bmap[f[2]])}
    IN  [k \in defeated |-> bmap[k].pos]

\* The loop over `fights`: blobs_to_remove after combat, defender key to
\* defender.pos.
combat(bmap, pairs) ==
    LET defeated == {k \in DOMAIN bmap :
            \E f \in pairs :
                \/ f[2] = k /\ defeats(bmap[f[1]], bmap[f[2]])
                \/ f[1] = k /\ defeats(bmap[f[2]], bmap[f[1]])}
    IN  [k \in defeated |-> bmap[k].pos]

\* Simulation::step, "step blobs" over the blobs `todo`: `acc` is {blobs, world}.
RECURSIVE step_blobs(_, _, _, _, _, _)
step_blobs(todo, targets, timestep, world_size, random, acc) ==
    IF todo = {} THEN acc
    ELSE LET key == CHOOSE k \in todo : TRUE
             r == Blob_step(acc.blobs[key], targets[key], timestep, acc.world, world_size,
                            IF key \in DOMAIN random THEN random[key] ELSE Vzero)
         IN  step_blobs(todo \ {key}, targets, timestep, world_size, random,
                        [blobs |-> [acc.blobs EXCEPT ![key] = r.blob], world |-> r.world])

\* A starvation scan that lets a blob live at hunger = max_hunger + 1.
blobs_dying_late(bmap, marked) ==
    LET starved == {k \in DOMAIN bmap : bmap[k].hunger > bmap[k].max_hunger + 1}
    IN  [k \in DOMAIN marked \cup starved |->
            IF k \in starved THEN bmap[k].pos ELSE marked[k]]

\* Simulation::step, "blobs dying": blobs_to_remove with the starved added.
blobs_dying(bmap, marked) ==
    LET starved == {k \in DOMAIN bmap : bmap[k].hunger > bmap[k].max_hunger}
    IN  [k \in DOMAIN marked \cup starved |->
            IF k \in starved THEN bmap[k].pos ELSE marked[k]]

\* A removal loop that takes the blobs out and spawns no Food for them.
RECURSIVE remove_all_no_spawn(_, _, _, _)
remove_all_no_spawn(order, i, to_remove, acc) ==
    IF i > Len(order) THEN acc
    ELSE remove_all_no_spawn(order, i + 1, to_remove,
             [sim |-> remove_blob(acc.sim, order[i]),
              log |-> Append(acc.log,
                         [blob |-> order[i], pos |-> to_remove[order[i]],
                          was_live |-> order[i] \in Keys(acc.sim.blobs),
                          food |-> acc.sim.foods.next])])

\* Simulation::step, "remove": blobs_to_remove taken in the order `order`;
\* `acc` is {sim, log}.
RECURSIVE remove_all(_, _, _, _)
remove_all(order, i, to_remove, acc) ==
    IF i > Len(order) THEN acc
    ELSE LET s1 == remove_blob(acc.sim, order[i])
             f == insert_food(s1, to_remove[order[i]])
         IN  remove_all(order, i + 1, to_remove,
                 [sim |-> f.sim,
                  log |-> Append(acc.log,
                             [blob |-> order[i], pos |-> to_remove[order[i]],
                              was_live |-> order[i] \in Keys(acc.sim.blobs),
                              food |-> f.key])])

\* The orders a HashMap or HashSet with the keys S can be traversed in.
RECURSIVE Perms(_)
Perms(S) ==
    IF S = {} THEN {<< >>}
    ELSE UNION {{<<k>> \o rest : rest \in Perms(S \ {k})} : k \in S}

(***************************************************************************)
(* The simulation's public operations as actions.                          *)
(***************************************************************************)

\* Bounds: how many blobs and foods the driver inserts, and how many times
\* it runs a collision pass (a step or a select).
MaxBlobs == 2
MaxFoods == 1
MaxRuns == 2

\* The world's size and the places the driver inserts at or selects: on a
\* grid of 5.0, inside, on the border and outside of the arena.
WorldSize == Vec2(1000, 500)
BlobPositions == {Vec2(500, 0), Vec2(1500, 500)}
FoodPositions == {Vec2(0, 0)}
SelectPositions == {Vec2(500, 0), Vec2(1000, 500)}

\* The timesteps stepped with.
Timesteps == {0, 1}

\* What random_vector2() * 2. - 1. is drawn from.
RandomDirections == {Vec2(1, 0 - 1), Vec2(0 - 1, 1)}

\* The parameters blobs are inserted with.
BlobParams == {
    [radius |-> 300, color |-> 0, speed |-> 500, rotation_speed |-> 1,
     pov |-> 180, sight_depth |-> 1200, favorite_color |-> 90,
     color_attraction |-> 1, color_repulsion |-> 1,
     max_hunger |-> 1, attack |-> 3, defence |-> 2,
     hunger_reduction |-> 1, hunger_division |-> 1],
    [radius |-> 100, color |-> 90, speed |-> 500, rotation_speed |-> 1,
     pov |-> 90, sight_depth |-> 600, favorite_color |-> 180,
     color_attraction |-> 1, color_repulsion |-> 2,
     max_hunger |-> 2, attack |-> 1, defence |-> 2,
     hunger_reduction |-> 0 - 1, hunger_division |-> 0] }

TheSim == Sim(blobs, foods, objects, physics)

SetSim(sim) ==
    /\ blobs' = sim.blobs
    /\ foods' = sim.foods
    /\ objects' = sim.objects
    /\ physics' = sim.physics

\* What `last` holds after an operation other than select and step.
Edited == [op |-> "edit"]

SimInit ==
    /\ size = WorldSize
    /\ blobs = Simulation_new.blobs
    /\ foods = Simulation_new.foods
    /\ objects = Simulation_new.objects
    /\ physics = Simulation_new.physics
    /\ colls = None
    /\ calls = [insert_food |-> 0, runs |-> 0, sets |-> 0]
    /\ last = Edited

InsertBlob ==
    /\ blobs.next < MaxBlobs
    /\ \E pos \in BlobPositions, p \in BlobParams :
         LET r == insert_blob(TheSim, pos, p)
         IN  /\ SetSim(r.sim)
             /\ last' = Edited
    /\ UNCHANGED <<ksVars, colls, size, calls>>

InsertFood ==
    /\ calls.insert_food < MaxFoods
    /\ \E pos \in FoodPositions :
         LET r == insert_food(TheSim, pos)
         IN  /\ SetSim(r.sim)
             /\ last' = Edited
    /\ calls' = [calls EXCEPT !.insert_food = @ + 1]
    /\ UNCHANGED <<ksVars, colls, size>>

\* remove_blob with any key the arena has issued or will issue next.
RemoveBlob ==
    /\ \E key \in 0..blobs.next :
         /\ SetSim(remove_blob(TheSim, key))
         /\ last' = Edited
    /\ UNCHANGED <<ksVars, colls, size, calls>>

RemoveFood ==
    /\ \E key \in 0..foods.next :
         /\ SetSim(remove_food(TheSim, key))
         /\ last' = Edited
    /\ UNCHANGED <<ksVars, colls, size, calls>>

\* The classification loop of Simulation::select over collided[i..].
RECURSIVE Classify(_, _, _, _)
Classify(collided, i, objs, acc) ==
    IF i > Len(collided) THEN acc
    ELSE Classify(collided, i + 1, objs,
            IF IsObj(objs, collided[i], "Blob")
            THEN [acc EXCEPT !.blobs = Append(@, objs[collided[i]].key)]
            ELSE IF IsObj(objs, collided[i], "Food")
            THEN [acc EXCEPT !.foods = Append(@, objs[collided[i]].key)]
            ELSE acc)

\* A select that leaves its probe in the world.
remove_probe_skipped(circles, key) == circles

\* Simulation::select, self.physics.circles.remove(key)
remove_probe(circles, key) == remove(circles, key).set

\* Simulation::select: the probe goes in, collisions() runs, the probe goes
\* out; the operation does not return when collisions() panics.
Select ==
    /\ calls.runs < MaxRuns
    /\ \E pos \in SelectPositions :
         LET probe == insert(physics.circles, Circle(pos, SELECT_RADIUS, SELECTION_LAYER))
             world == [physics EXCEPT !.circles = probe.set]
         IN  /\ ~collisions_panics(world)
             /\ \E collided \in collisions_by_first(world) :
                  /\ physics' = [physics EXCEPT !.circles = remove_probe(probe.set, probe.key)]
                  /\ last' = [op |-> "select", pos |-> pos, probe |-> probe.key,
                              result |-> Classify(Touched(collided, probe.key), 1, objects,
                                                  [blobs |-> << >>, foods |-> << >>])]
    /\ calls' = [calls EXCEPT !.runs = @ + 1]
    /\ UNCHANGED <<ksVars, colls, size, blobs, foods, objects>>

\* Simulation::step on `sim` with `timestep`: what the call can leave, as
\* records {sim, log}.  The choices: the order collisions() finds the circles
\* in, the orders the blobs eat and the dead are removed in, and the random
\* direction of each blob that has none.
step(sim, world_size, timestep) ==
    UNION {
      LET targets == prepare_blob_steps(sim, snapshot)
      IN  UNION {
            LET ate == blobs_eating(eat_order, 1, sim.objects, snapshot,
                          [blobs |-> sim.blobs.map, foods |-> sim.foods, log |-> << >>])
                pairs == fights(ate.blobs, sim.objects, snapshot)
                marked == combat(ate.blobs, pairs)
                undirected == {k \in DOMAIN ate.blobs : ate.blobs[k].direction = Vzero}
            IN  UNION {
                  LET moved == step_blobs(DOMAIN ate.blobs, targets, timestep, world_size,
                                          random, [blobs |-> ate.blobs, world |-> sim.physics])
                      blobs_to_remove == blobs_dying(moved.blobs, marked)
                  IN  { LET done == remove_all(remove_order, 1, blobs_to_remove,
                                       [sim |-> Sim([sim.blobs EXCEPT !.map = moved.blobs],
                                                    ate.foods, sim.objects, moved.world),
                                        log |-> << >>])
                        IN  [sim |-> done.sim,
                             log |-> [op |-> "step", timestep |-> timestep,
                                      before |-> sim, snapshot |-> snapshot,
                                      targets |-> targets,
                                      eats |-> ate.log, fed |-> ate.blobs,
                                      fights |-> pairs, marked |-> marked,
                                      integrated |->
                                          [k \in DOMAIN ate.blobs |->
                                              Blob_integrate(ate.blobs[k], targets[k],
                                                  timestep, sim.physics,
                                                  IF k \in undirected THEN random[k]
                                                  ELSE Vzero).blob],
                                      moved |-> moved.blobs,
                                      removed |-> done.log]]
                        : remove_order \in Perms(DOMAIN blobs_to_remove) }
                  : random \in [undirected -> RandomDirections] }
            : eat_order \in Perms(Eaters(sim.blobs.map, sim.objects, snapshot)) }
      : snapshot \in collisions_by_first(sim.physics) }

\* Simulation::step; the operation does not return when collisions() panics.
Step ==
    /\ calls.runs < MaxRuns
    /\ calls' = [calls EXCEPT !.runs = @ + 1]
    /\ ~collisions_panics(physics)
    /\ \E timestep \in Timesteps :
         \E o \in step(TheSim, size, timestep) :
             /\ SetSim(o.sim)
             /\ last' = o.log
    /\ UNCHANGED <<ksVars, colls, size>>

\* Bound: how many times the driver moves or resizes a blob.
MaxSets == 2

\* The radii and sight depths blobs are resized to.
RadiusValues == {200, 600}
SightDepthValues == {800}

\* Simulation::set_blob_pos with any key the arena has issued or will issue
\* next.
SetBlobPos ==
    /\ calls.sets < MaxSets
    /\ \E key \in 0..blobs.next, pos \in BlobPositions :
         SetSim(set_blob_pos(TheSim, key, pos))
    /\ calls' = [calls EXCEPT !.sets = @ + 1]
    /\ last' = Edited
    /\ UNCHANGED <<ksVars, colls, size>>

\* Blob::set_radius on a live blob got with get_blob_mut.
SetRadius ==
    /\ calls.sets < MaxSets
    /\ \E key \in Keys(blobs), value \in RadiusValues :
         SetSim(get_blob_mut(TheSim, key, Blob_set_radius(blobs.map[key], physics, value)))
    /\ calls' = [calls EXCEPT !.sets = @ + 1]
    /\ last' = Edited
    /\ UNCHANGED <<ksVars, colls, size>>

\* Blob::set_sight_depth on a live blob got with get_blob_mut.
SetSightDepth ==
    /\ calls.sets < MaxSets
    /\ \E key \in Keys(blobs), value \in SightDepthValues :
         SetSim(get_blob_mut(TheSim, key, Blob_set_sight_depth(blobs.map[key], physics, value)))
    /\ calls' = [calls EXCEPT !.sets = @ + 1]
    /\ last' = Edited
    /\ UNCHANGED <<ksVars, colls, size>>

(***************************************************************************)
(* The arena on its own: insert and remove in any order.                   *)
(***************************************************************************)

\* The values of tests::test_general_behavior.
KsValues == {"Hello!", "Bye!"}

KsInit ==
    /\ kset = KeyedSet_new
    /\ ksLog = << >>
    /\ ksRetired = {}

KsInsert ==
    /\ kset.next < MaxKeys
    /\ \E v \in KsValues :
         LET r == insert(kset, v)
         IN  /\ kset' = r.set
             /\ ksLog' = Append(ksLog, <<r.key, v>>)
    /\ UNCHANGED <<ksRetired, worldVars, simVars>>

KsIssued == {ksLog[i][1] : i \in 1..Len(ksLog)}

KsRemove ==
    /\ \E k \in 0..MaxKeys :
         /\ kset' = remove(kset, k).set
         /\ ksRetired' = IF k \in KsIssued THEN ksRetired \cup {k} ELSE ksRetired
    /\ UNCHANGED <<ksLog, worldVars, simVars>>


(***************************************************************************)
(* The collision world on its own: circles come and go, collisions() is    *)
(* called on what is there.                                                *)
(***************************************************************************)

\* Bound: the number of circles inserted into the world on its own.
MaxCircles == 3

\* The circles inserted: centers, radii and layers that make circles overlap
\* on the x axis only, overlap fully, and lie apart.
WorldXs == {0, 3, 4}
WorldYs == {0, 3}
WorldRadii == {1, 5}
WorldLayers == {Blob_LAYER, Food_LAYER}
WorldMatrices == {EmptyMap, SimulationMatrix}

WorldCircles ==
    {Circle(Vec2(x, y), r, l) : x \in WorldXs, y \in WorldYs, r \in WorldRadii, l \in WorldLayers}

WInit ==
    /\ physics \in {World_new(m) : m \in WorldMatrices}
    /\ colls = None

WInsert ==
    /\ physics.circles.next < MaxCircles
    /\ \E c \in WorldCircles :
         physics' = [physics EXCEPT !.circles = insert(physics.circles, c).set]
    /\ colls' = None
    /\ UNCHANGED <<ksVars, simVars>>

WRemove ==
    /\ \E k \in Keys(physics.circles) :
         physics' = [physics EXCEPT !.circles = remove(physics.circles, k).set]
    /\ colls' = None
    /\ UNCHANGED <<ksVars, simVars>>

\* circles.get_mut(k).unwrap() and a write to the center or the radius.
WMutate ==
    /\ \E k \in Keys(physics.circles) :
         \/ \E x \in WorldXs, y \in WorldYs :
              physics' = [physics EXCEPT !.circles.map[k].center = Vec2(x, y)]
         \/ \E r \in WorldRadii :
              physics' = [physics EXCEPT !.circles.map[k].radius = r]
    /\ colls' = None
    /\ UNCHANGED <<ksVars, simVars>>

WCollisions ==
    /\ \E r \in collisions(physics) : colls' = Some(r)
    /\ UNCHANGED <<physics, ksVars, simVars>>

(***************************************************************************)
(* Specifications                                                          *)
(***************************************************************************)

SimIdle ==
    /\ size = Vzero
    /\ blobs = KeyedSet_new
    /\ foods = KeyedSet_new
    /\ objects = EmptyMap
    /\ calls = [insert_food |-> 0, runs |-> 0, sets |-> 0]
    /\ last = Edited

WorldIdle ==
    /\ physics = World_new(EmptyMap)
    /\ colls = None

KsNext == KsInsert \/ KsRemove

KsSpecInit == KsInit /\ WorldIdle /\ SimIdle

SpecKeyedSet == KsSpecInit /\ [][KsNext]_vars

WNext == WInsert \/ WRemove \/ WMutate \/ WCollisions

WSpecInit == KsInit /\ WInit /\ SimIdle

SpecWorld == WSpecInit /\ [][WNext]_vars

Init == KsInit /\ SimInit

Next == InsertBlob \/ InsertFood \/ RemoveBlob \/ RemoveFood \/ Select \/ Step

Spec == Init /\ [][Next]_vars

\* The simulation with a driver that inserts, moves and resizes blobs and
\* steps; Foods come from the blobs that die.
MoveNext ==
    InsertBlob \/ SetBlobPos \/ SetRadius \/ SetSightDepth \/ Step

SpecMove == Init /\ [][MoveNext]_vars

(***************************************************************************)
(* C4: get(k) answers the value inserted under k from the insert that      *)
(* returned k until remove(k) is called and answers None ever after; no    *)
(* insert returns a key an earlier insert returned, also when the arena    *)
(* was emptied and refilled.                                               *)
(***************************************************************************)
C4_GetUntilRemovedKeysNeverReused ==
    /\ \A i, j \in 1..Len(ksLog) : i # j => ksLog[i][1] # ksLog[j][1]
    /\ \A i \in 1..Len(ksLog) :
         get(kset, ksLog[i][1]) =
             IF ksLog[i][1] \in ksRetired THEN None ELSE Some(ksLog[i][2])

\* The arena was emptied by removes and refilled: a key issued after the
\* arena became empty is live beside a retired one.
C4_Witness ==
    /\ Len(ksLog) >= 3
    /\ ksLog[1][1] \in ksRetired
    /\ ksLog[2][1] \in ksRetired
    /\ ksLog[3][1] \notin ksRetired
    /\ get(kset, ksLog[3][1]) = Some(ksLog[3][2])
    /\ get(kset, ksLog[1][1]) = None

(***************************************************************************)
(* C2: collisions() is complete: two distinct circles that intersect, the  *)
(* first one's layer having no matrix entry or one that contains the       *)
(* second one's layer, are reported: the second's key is in the list of    *)
(* the first.                                                              *)
(***************************************************************************)
Reported(r, a, b) == a \in DOMAIN r /\ b \in SeqRange(r[a])

MaskedIn(world, a, b) ==
    LET la == world.circles.map[a].layer
        lb == world.circles.map[b].layer
    IN  \/ la \notin DOMAIN world.collision_matrix
        \/ LayerMask_contains(world.collision_matrix[la], lb)

C2_CollisionsComplete ==
    IsSome(colls) =>
        \A a, b \in Keys(physics.circles) :
            ( /\ a # b
              /\ intersects(physics.circles.map[a], physics.circles.map[b])
              /\ MaskedIn(physics, a, b) )
            => Reported(Unwrap(colls), a, b)

(***************************************************************************)
(* What the claims about step read off `last`, the record of the call.     *)
(***************************************************************************)
Stepped == last.op = "step"

\* The blobs live when the step was called, and those of them live after.
LiveBefore == Keys(last.before.blobs)
Survivors == LiveBefore \cap Keys(blobs)

\* The body circles of blobs a and b are in contact in the step's snapshot.
InContact(a, b) ==
    LET ca == last.before.blobs.map[a].circle
        cb == last.before.blobs.map[b].circle
    IN  \/ cb \in SeqRange(Touched(last.snapshot, ca))
        \/ ca \in SeqRange(Touched(last.snapshot, cb))

\* The feedings of blob k in the step: positions in the eating log.
Feedings(k) == {i \in 1..Len(last.eats) : last.eats[i].blob = k}

\* Blob k's hunger exceeds max_hunger after the step's integration.
Starved(k) == last.moved[k].hunger > last.moved[k].max_hunger

(***************************************************************************)
(* C1: no dangling circle identifiers: after any sequence of operations    *)
(* every entry Blob(k), BlobSight(k), Food(k) of the circle-object map      *)
(* names an entity that is live in its arena.                              *)
(***************************************************************************)
C1_EveryMapEntryNamesLiveEntity ==
    \A c \in DOMAIN objects :
        IF objects[c].kind = "Food"
        THEN objects[c].key \in Keys(foods)
        ELSE objects[c].key \in Keys(blobs)

(***************************************************************************)
(* C3: after each public operation the keys of the circles live in the     *)
(* collision world are the keys of the circle-object map.                  *)
(***************************************************************************)
C3_CirclesAreMapKeys == Keys(physics.circles) = DOMAIN objects

\* A step that removed a blob and spawned its Food, with circles left.
C3_Witness ==
    /\ Stepped
    /\ Len(last.removed) > 0
    /\ Cardinality(DOMAIN objects) >= 2

(***************************************************************************)
(* C5: in every call to step the number of blobs removed equals the number *)
(* of Foods inserted, and each blob is removed at most once, also when it  *)
(* is both defeated in combat and starved.                                 *)
(***************************************************************************)
C5_RemovedBlobsEqualSpawnedFoods ==
    Stepped =>
        LET gone == LiveBefore \ Keys(blobs)
            spawned == {f \in Keys(foods) : f >= last.before.foods.next}
        IN  /\ Cardinality(gone) = foods.next - last.before.foods.next
            /\ Cardinality(gone) = Cardinality(spawned)
            /\ Len(last.removed) = Cardinality(gone)
            /\ \A i \in 1..Len(last.removed) : last.removed[i].was_live
            /\ \A i, j \in 1..Len(last.removed) :
                 i # j => last.removed[i].blob # last.removed[j].blob

\* A blob was defeated in combat and starved in the same step.
C5_Witness ==
    /\ Stepped
    /\ \E k \in LiveBefore : k \in DOMAIN last.marked /\ Starved(k)

(***************************************************************************)
(* C6: when step returns no live blob has hunger > max_hunger: every blob  *)
(* whose hunger exceeds max_hunger after integration is removed in that    *)
(* step.                                                                   *)
(***************************************************************************)
C6_NoLiveBlobOverMaxHunger ==
    Stepped =>
        /\ \A k \in Keys(blobs) : blobs.map[k].hunger <= blobs.map[k].max_hunger
        /\ \A k \in LiveBefore : Starved(k) => k \notin Keys(blobs)

\* A blob that nobody defeated went over max_hunger in the step; another
\* blob lives on.
C6_Witness ==
    /\ Stepped
    /\ \E k \in LiveBefore : Starved(k) /\ k \notin DOMAIN last.marked
    /\ Keys(blobs) # {}

(***************************************************************************)
(* C7: a blob live at the start of step is removed by it if and only if    *)
(* (a) another blob in body contact with it in the snapshot has attack     *)
(* greater than its defence scaled by (1 - hunger/max_hunger), or (b) its  *)
(* hunger exceeds max_hunger after integration; each unordered pair in     *)
(* contact is recorded once and evaluated in both directions.              *)
(***************************************************************************)
Outdone(k) ==
    \E j \in LiveBefore \ {k} :
        /\ InContact(j, k)
        /\ last.fed[j].attack * last.fed[k].max_hunger
             > last.fed[k].defence * (last.fed[k].max_hunger - last.fed[k].hunger)

C7_RemovedIffDefeatedOrStarved ==
    Stepped =>
        /\ \A k \in LiveBefore : (k \notin Keys(blobs)) <=> (Outdone(k) \/ Starved(k))
        /\ last.fights = {p \in LiveBefore \X LiveBefore : p[1] < p[2] /\ InContact(p[1], p[2])}

\* Both blobs of a pair in contact were defeated by the other and removed;
\* neither starved.
C7_Witness ==
    /\ Stepped
    /\ \E a, b \in LiveBefore :
         /\ a < b
         /\ InContact(a, b)
         /\ Outdone(a) /\ Outdone(b)
         /\ ~Starved(a) /\ ~Starved(b)
         /\ a \notin Keys(blobs) /\ b \notin Keys(blobs)

(***************************************************************************)
(* C8: for every blob removed by step the Food spawned for it is at the    *)
(* position the blob holds when it is removed, after the tick's            *)
(* integration and boundary reflection.                                    *)
(***************************************************************************)
C8_FoodAtLastPosition ==
    Stepped =>
        \A i \in 1..Len(last.removed) :
            foods.map[last.removed[i].food].pos = last.moved[last.removed[i].blob].pos

(***************************************************************************)
(* C9 as claimed: a blob that survives a step and is not fed in it has a   *)
(* hunger strictly greater than before, by exactly timestep; each feeding  *)
(* leaves hunger at most what it was and at least 0.                       *)
(***************************************************************************)
C9_HungerStrictlyUpFeedingNeverUp ==
    Stepped =>
        \A k \in Survivors :
            /\ Feedings(k) = {} =>
                 /\ blobs.map[k].hunger > last.before.blobs.map[k].hunger
                 /\ blobs.map[k].hunger = last.before.blobs.map[k].hunger + last.timestep
            /\ \A i \in Feedings(k) :
                 /\ last.eats[i].hunger_after <= last.eats[i].hunger_before
                 /\ last.eats[i].hunger_after >= 0

(***************************************************************************)
(* C9 amended: a blob that survives a step and is not fed in it has its    *)
(* hunger raised by exactly timestep, strictly when timestep > 0; each     *)
(* feeding leaves hunger at least 0, and at most what it was when the      *)
(* blob's hunger_reduction and hunger_division are not negative.           *)
(***************************************************************************)
C9_HungerUpByTimestepFeedingBounded ==
    Stepped =>
        \A k \in Survivors :
            /\ Feedings(k) = {} =>
                 /\ blobs.map[k].hunger = last.before.blobs.map[k].hunger + last.timestep
                 /\ last.timestep > 0 =>
                      blobs.map[k].hunger > last.before.blobs.map[k].hunger
            /\ \A i \in Feedings(k) :
                 /\ last.eats[i].hunger_after >= 0
                 /\ (blobs.map[k].hunger_reduction >= 0 /\ blobs.map[k].hunger_division >= 0)
                      => last.eats[i].hunger_after <= last.eats[i].hunger_before

\* A step with a positive timestep that one blob survived unfed and another
\* survived fed, its hunger brought down by the feeding.
C9_Witness ==
    /\ Stepped
    /\ last.timestep > 0
    /\ \E k \in Survivors : Feedings(k) = {}
    /\ \E k \in Survivors : \E i \in Feedings(k) :
         last.eats[i].hunger_after < last.eats[i].hunger_before

(***************************************************************************)
(* C10: when the body circles of two blobs collide with the same Food in   *)
(* one snapshot, both blobs attempt to remove it, the first attempt        *)
(* removes it and every later attempt finds it absent: the Food leaves     *)
(* the arena exactly once.                                                 *)
(***************************************************************************)
Touchers(f) ==
    {k \in LiveBefore :
        last.before.foods.map[f].circle
            \in SeqRange(Touched(last.snapshot, last.before.blobs.map[k].circle))}

Attempts(f) == {i \in 1..Len(last.eats) : last.eats[i].food = f}

C10_SharedFoodRemovedOnce ==
    Stepped =>
        \A f \in Keys(last.before.foods) :
            Cardinality(Touchers(f)) >= 2 =>
                /\ \A k \in Touchers(f) : \E i \in Attempts(f) : last.eats[i].blob = k
                /\ Cardinality({i \in Attempts(f) : last.eats[i].removed}) = 1
                /\ \A i \in Attempts(f) :
                     last.eats[i].removed <=> (\A j \in Attempts(f) : i <= j)
                /\ f \notin Keys(foods)

\* Two blobs touched the same live Food in the step's snapshot.
C10_Witness ==
    /\ Stepped
    /\ \E f \in Keys(last.before.foods) : Cardinality(Touchers(f)) >= 2


(***************************************************************************)
(* What the claims about select read off `last`, the record of the call.   *)
(***************************************************************************)
Selected == last.op = "select"

\* The circle c covers the point p: p is no farther from c's center than
\* c's radius.
Covers(c, p) ==
    /\ ~IsNaN(c.center) /\ ~IsNaN(p)
    /\ LET d == Vsub(p, c.center)
       IN  d.x * d.x + d.y * d.y <= c.radius * c.radius

(***************************************************************************)
(* C11: select(point) returns every live blob whose body circle covers the *)
(* point and every live Food whose circle covers the point, whatever other *)
(* circles exist; every blob returned is one whose body circle, not its    *)
(* sight circle, meets the probe.                                          *)
(***************************************************************************)
C11_SelectReturnsAllAtPoint ==
    Selected =>
        /\ \A k \in Keys(blobs) :
             Covers(physics.circles.map[blobs.map[k].circle], last.pos)
                 => k \in SeqRange(last.result.blobs)
        /\ \A f \in Keys(foods) :
             Covers(physics.circles.map[foods.map[f].circle], last.pos)
                 => f \in SeqRange(last.result.foods)
        /\ \A k \in SeqRange(last.result.blobs) :
             /\ k \in Keys(blobs)
             /\ intersects(Circle(last.pos, SELECT_RADIUS, SELECTION_LAYER),
                           physics.circles.map[blobs.map[k].circle])


(***************************************************************************)
(* C12: select(point) leaves the simulation unchanged: when it returns the *)
(* probe is not in the collision world, and the blob arena, the Food       *)
(* arena, the circle-object map and the live circles are what they were    *)
(* before the call; only the circle arena's key counter has advanced.      *)
(***************************************************************************)
C12_SelectLeavesSimulationUnchanged ==
    [][ last'.op = "select" =>
          /\ blobs' = blobs
          /\ foods' = foods
          /\ objects' = objects
          /\ physics'.circles.map = physics.circles.map
          /\ physics'.collision_matrix = physics.collision_matrix
          /\ last'.probe \notin Keys(physics'.circles)
          /\ physics'.circles.next = physics.circles.next + 1 ]_vars

\* A select that found a blob and a Food at the point has returned.
C12_Witness ==
    /\ Selected
    /\ last.result.blobs # << >>
    /\ last.result.foods # << >>
    /\ last.probe \notin Keys(physics.circles)


(***************************************************************************)
(* C13: remove_blob and remove_food are idempotent: in every state, for a  *)
(* live key the call returns the entity and a second call with that key    *)
(* returns None; a call with a key that is not live (removed before, or    *)
(* never issued) returns None and leaves the blob arena, the Food arena,   *)
(* the circle-object map and the collision world as they are.              *)
(***************************************************************************)
C13_RemoveIsIdempotent ==
    /\ \A key \in 0..blobs.next + 1 :
         LET once == remove_blob(TheSim, key)
         IN  /\ removed_blob(TheSim, key) = get(blobs, key)
             /\ key \notin Keys(blobs) =>
                  removed_blob(TheSim, key) = None /\ once = TheSim
             /\ removed_blob(once, key) = None
             /\ remove_blob(once, key) = once
    /\ \A key \in 0..foods.next + 1 :
         LET once == remove_food(TheSim, key)
         IN  /\ removed_food(TheSim, key) = get(foods, key)
             /\ key \notin Keys(foods) =>
                  removed_food(TheSim, key) = None /\ once = TheSim
             /\ removed_food(once, key) = None
             /\ remove_food(once, key) = once

\* A blob key and a Food key have been removed and are not live, beside a
\* live blob and a live Food.
C13_Witness ==
    /\ \E key \in 0..blobs.next - 1 : key \notin Keys(blobs)
    /\ \E key \in 0..foods.next - 1 : key \notin Keys(foods)
    /\ Keys(blobs) # {}
    /\ Keys(foods) # {}
    /\ last = Edited


(***************************************************************************)
(* C14: after every operation that moves or resizes a blob (insert_blob,   *)
(* set_blob_pos, set_radius, set_sight_depth, step with its reflection)    *)
(* the blob's body circle and sight circle are centered at the blob's pos, *)
(* the body circle's radius is the blob's radius and the sight circle's    *)
(* radius is its sight_depth.                                              *)
(***************************************************************************)
C14_CirclesTrackBlob ==
    \A k \in Keys(blobs) :
        LET b == blobs.map[k]
        IN  /\ b.circle \in Keys(physics.circles)
            /\ b.sight_circle \in Keys(physics.circles)
            /\ physics.circles.map[b.circle].center = b.pos
            /\ physics.circles.map[b.sight_circle].center = b.pos
            /\ physics.circles.map[b.circle].radius = b.radius
            /\ physics.circles.map[b.sight_circle].radius = b.sight_depth

\* A blob that was resized, body and sight, has been moved by a step that
\* reflected it at an edge of the world.
C14_Witness ==
    /\ Stepped
    /\ \E k \in Survivors :
         /\ blobs.map[k].radius \in RadiusValues
         /\ blobs.map[k].sight_depth \in SightDepthValues
         /\ blobs.map[k].pos # last.before.blobs.map[k].pos
         /\ blobs.map[k].pos.x \in {0, WorldSize.x}


(***************************************************************************)
(* C15: in step's integration, for each of the four world edges: when the  *)
(* blob's integrated coordinate lies beyond the edge (x > width,           *)
(* y > height, x < 0, y < 0) the coordinate is set to the edge value and   *)
(* the matching direction component is negated; when it lies beyond no     *)
(* edge, neither it nor the direction component is altered.                *)
(***************************************************************************)
\* What the reflection makes of the coordinate c and the direction
\* component d, with the far edge at `edge`.
Reflected(c, d, edge) ==
    IF c > edge THEN <<edge, 0 - d>>
    ELSE IF c < 0 THEN <<0, 0 - d>>
    ELSE <<c, d>>

C15_ReflectionPerEdge ==
    Stepped =>
        \A k \in LiveBefore :
            LET i == last.integrated[k]
                m == last.moved[k]
            IN  IF IsNaN(i.pos) \/ IsNaN(i.direction)
                THEN m.pos = i.pos /\ m.direction = i.direction
                ELSE /\ <<m.pos.x, m.direction.x>> = Reflected(i.pos.x, i.direction.x, size.x)
                     /\ <<m.pos.y, m.direction.y>> = Reflected(i.pos.y, i.direction.y, size.y)
                     /\ ~IsNaN(m.pos) /\ ~IsNaN(m.direction)

\* One blob was integrated beyond the left and the far y edge at once, in a
\* step that left another blob's x inside.
C15_Witness ==
    /\ Stepped
    /\ \E k \in LiveBefore :
         /\ ~IsNaN(last.integrated[k].pos)
         /\ last.integrated[k].pos.x < 0
         /\ last.integrated[k].pos.y > size.y
    /\ \E k \in LiveBefore :
         /\ ~IsNaN(last.integrated[k].pos)
         /\ last.integrated[k].pos.x >= 0
         /\ last.integrated[k].pos.x <= size.x


(***************************************************************************)
(* C16: on a world whose collision matrix has no entries, collisions() is  *)
(* symmetric and irreflexive and reports the circles as they are now, also *)
(* after a center or a radius was written through get_mut: B is in A's     *)
(* list iff A is in B's, no key is in its own list, and A's list holds B   *)
(* exactly when A and B are distinct and intersect; a key without          *)
(* partners has no entry.                                                  *)
(***************************************************************************)
C16_UnrestrictedCollisionsExact ==
    (IsSome(colls) /\ physics.collision_matrix = EmptyMap) =>
        LET r == Unwrap(colls)
        IN  /\ DOMAIN r \subseteq Keys(physics.circles)
            /\ \A a \in DOMAIN r : r[a] # << >> /\ ~Reported(r, a, a)
            /\ \A a, b \in Keys(physics.circles) :
                 /\ Reported(r, a, b) <=> Reported(r, b, a)
                 /\ Reported(r, a, b) <=>
                      (a # b /\ intersects(physics.circles.map[a], physics.circles.map[b]))


(***************************************************************************)
(* C17: step is deterministic: from a state in which every blob has a      *)
(* non-zero direction, with a given timestep, every execution of step      *)
(* leaves the same blobs, Foods under the same keys at the same positions, *)
(* circles and circle-object map, whatever order the hash-based containers *)
(* are traversed in.                                                       *)
(***************************************************************************)
AllDirected == \A k \in Keys(blobs) : blobs.map[k].direction # Vzero

C17_StepDeterministic ==
    (AllDirected /\ ~collisions_panics(physics)) =>
        \A timestep \in Timesteps :
            \A o1, o2 \in step(TheSim, size, timestep) : o1.sim = o2.sim


(***************************************************************************)
(* C18: from every state reached through the public operations a call to   *)
(* step runs to completion: collisions() returns, and none of the lookups  *)
(* step unwraps misses: a seen partner's circle and its circle-object      *)
(* entry, both blobs of a fight, a blob's own body and sight circle.       *)
(***************************************************************************)
LookupsSucceed(snapshot) ==
    \A k \in Keys(blobs) :
        LET b == blobs.map[k]
        IN  /\ b.circle \in Keys(physics.circles)
            /\ b.sight_circle \in Keys(physics.circles)
            /\ \A c \in SeqRange(Touched(snapshot, b.sight_circle)) :
                 c \in Keys(physics.circles) /\ c \in DOMAIN objects
            /\ \A c \in SeqRange(Touched(snapshot, b.circle)) :
                 IsObj(objects, c, "Blob") => objects[c].key \in Keys(blobs)

C18_StepRunsToCompletion ==
    /\ ~collisions_panics(physics)
    /\ \A snapshot \in collisions_by_first(physics) : LookupsSucceed(snapshot)


(***************************************************************************)
(* C19: within one step the phases run in the order perception, feeding,   *)
(* combat, integration, lifecycle for the whole population: the steering   *)
(* targets are those of the state the step started from; combat is         *)
(* decided on every defender's hunger after all feeding and before any     *)
(* advance by timestep; hunger is advanced after combat; the starvation    *)
(* check uses the advanced hunger.                                         *)
(***************************************************************************)
\* Blob k would be defeated by a blob in contact if its hunger were h.
OutdoneAtHunger(k, h) ==
    \E j \in LiveBefore \ {k} :
        /\ InContact(j, k)
        /\ last.fed[j].attack * last.fed[k].max_hunger
             > last.fed[k].defence * (last.fed[k].max_hunger - h)

\* Blob k's hunger after its feedings of the step, by the eating log.
HungerFed(k) ==
    IF Feedings(k) = {} THEN last.before.blobs.map[k].hunger
    ELSE last.eats[CHOOSE i \in Feedings(k) : \A j \in Feedings(k) : j <= i].hunger_after

C19_PhasesInOrder ==
    Stepped =>
        /\ last.targets = prepare_blob_steps(last.before, last.snapshot)
        /\ \A k \in LiveBefore :
             /\ last.fed[k].hunger = HungerFed(k)
             /\ last.fed[k].pos = last.before.blobs.map[k].pos
             /\ k \in DOMAIN last.marked <=> OutdoneAtHunger(k, HungerFed(k))
             /\ last.integrated[k].hunger = HungerFed(k) + last.timestep
             /\ last.moved[k].hunger = last.integrated[k].hunger
             /\ k \notin Keys(blobs) <=>
                  (k \in DOMAIN last.marked \/ last.moved[k].hunger > last.moved[k].max_hunger)

\* A step in which the order shows: a blob's hunger was changed by what it
\* ate, a blob that would lose at its advanced hunger was not defeated, and
\* a blob starved on its advanced hunger.
C19_Witness ==
    /\ Stepped
    /\ last.timestep > 0
    /\ \E k \in LiveBefore : HungerFed(k) # last.before.blobs.map[k].hunger
    /\ \E k \in LiveBefore :
         /\ k \notin DOMAIN last.marked
         /\ OutdoneAtHunger(k, last.moved[k].hunger)
    /\ \E k \in LiveBefore :
         /\ Starved(k)
         /\ HungerFed(k) <= last.fed[k].max_hunger


(***************************************************************************)
(* C20: collisions() is sound and minimal: every key B in the list of a    *)
(* key A of the result is a live circle other than A, the distance of the  *)
(* centers is at most the sum of the radii, and A's layer has no matrix    *)
(* entry or one that contains B's layer; no key of the result has an       *)
(* empty list; the result of a world without circles is empty.             *)
(***************************************************************************)
\* The distance of the centers of circles a and b is at most the sum of
\* their radii.
WithinReach(world, a, b) ==
    LET ca == world.circles.map[a]
        cb == world.circles.map[b]
        dx == cb.center.x - ca.center.x
        dy == cb.center.y - ca.center.y
        reach == ca.radius + cb.radius
    IN  /\ ~IsNaN(ca.center) /\ ~IsNaN(cb.center)
        /\ reach >= 0
        /\ dx * dx + dy * dy <= reach * reach

C20_CollisionsSoundAndMinimal ==
    IsSome(colls) =>
        LET r == Unwrap(colls)
        IN  /\ \A a \in DOMAIN r :
                 /\ a \in Keys(physics.circles)
                 /\ Len(r[a]) > 0
                 /\ \A i \in 1..Len(r[a]) :
                      /\ r[a][i] \in Keys(physics.circles)
                      /\ r[a][i] # a
                      /\ WithinReach(physics, a, r[a][i])
                      /\ MaskedIn(physics, a, r[a][i])
            /\ len(physics.circles) = 0 => r = EmptyMap

\* A result under the simulation's matrix in which a Blob-layer circle lists
\* a Food-layer circle it overlaps and the Food-layer circle, whose mask is
\* empty, is no key of the result.
C20_Witness ==
    /\ IsSome(colls)
    /\ physics.collision_matrix = SimulationMatrix
    /\ \E a, b \in Keys(physics.circles) :
         /\ physics.circles.map[a].layer = Blob_LAYER
         /\ physics.circles.map[b].layer = Food_LAYER
         /\ Reported(Unwrap(colls), a, b)
         /\ b \notin DOMAIN Unwrap(colls)


(***************************************************************************)
(* C21: step computes the collision graph once, on the state it was called *)
(* on, and the feedings, fights and perceptions of the tick are those of   *)
(* that snapshot: a blob feeds once for every Food-tagged circle in its    *)
(* body circle's list, two blobs fight exactly when one's body circle      *)
(* lists the other's, the steering targets are those of the snapshot, and  *)
(* a Food spawned in the tick feeds no blob in it.                         *)
(***************************************************************************)
\* The positions in the snapshot list of blob k's body circle that hold a
\* circle tagged Food when the step was called.
FoodContacts(k) ==
    LET touched == Touched(last.snapshot, last.before.blobs.map[k].circle)
    IN  {j \in 1..Len(touched) : IsObj(last.before.objects, touched[j], "Food")}

\* The Food keys behind FoodContacts(k).
FoodsTouched(k) ==
    LET touched == Touched(last.snapshot, last.before.blobs.map[k].circle)
    IN  {last.before.objects[touched[j]].key : j \in FoodContacts(k)}

\* Blob a's body circle lists blob b's body circle in the snapshot.
ListsBlob(a, b) ==
    \E c \in SeqRange(Touched(last.snapshot, last.before.blobs.map[a].circle)) :
        /\ IsObj(last.before.objects, c, "Blob")
        /\ last.before.objects[c].key = b

\* The Foods the step spawned.
SpawnedFoods == {last.removed[i].food : i \in 1..Len(last.removed)}

C21_DecisionsFromStartSnapshot ==
    Stepped =>
        /\ last.snapshot \in collisions(last.before.physics)
        /\ last.targets = prepare_blob_steps(last.before, last.snapshot)
        /\ \A k \in LiveBefore :
             /\ Cardinality(Feedings(k)) = Cardinality(FoodContacts(k))
             /\ {last.eats[i].food : i \in Feedings(k)} = FoodsTouched(k)
        /\ \A i \in 1..Len(last.eats) :
             /\ last.eats[i].blob \in LiveBefore
             /\ last.eats[i].food \notin SpawnedFoods
        /\ \A a, b \in LiveBefore :
             a < b => (<<a, b>> \in last.fights <=> (ListsBlob(a, b) \/ ListsBlob(b, a)))
        /\ \A f \in last.fights : f[1] \in LiveBefore /\ f[2] \in LiveBefore /\ f[1] <= f[2]

\* A step whose deaths and movement made contacts the snapshot did not
\* hold: a Food spawned in the tick overlaps the body circle of a blob that
\* lived on, and that blob did not feed on it.
C21_Witness ==
    /\ Stepped
    /\ \E i \in 1..Len(last.removed) : \E k \in Survivors :
         /\ last.removed[i].food \in Keys(foods)
         /\ intersects(physics.circles.map[blobs.map[k].circle],
                       physics.circles.map[foods.map[last.removed[i].food].circle])
         /\ last.removed[i].food \notin FoodsTouched(k)


(***************************************************************************)
(* The collision world under the simulation's matrix: circles on the four  *)
(* layers of the simulation and on one the matrix has no entry for.        *)
(***************************************************************************)
\* A layer Simulation::new gives no matrix entry.
UNLISTED_LAYER == Layer_new(3)

LayerXs == {0, 3}
LayerRadii == {1, 5}
LayerLayers == {Blob_LAYER, Blob_SIGHT_LAYER, Food_LAYER, SELECTION_LAYER, UNLISTED_LAYER}

LayerCircles ==
    {Circle(Vec2(x, 0), r, l) : x \in LayerXs, r \in LayerRadii, l \in LayerLayers}

LInit ==
    /\ physics = World_new(SimulationMatrix)
    /\ colls = None

LInsert ==
    /\ physics.circles.next < MaxCircles
    /\ \E c \in LayerCircles :
         physics' = [physics EXCEPT !.circles = insert(physics.circles, c).set]
    /\ colls' = None
    /\ UNCHANGED <<ksVars, simVars>>

LNext == LInsert \/ WRemove \/ WCollisions

LSpecInit == KsInit /\ LInit /\ SimIdle

SpecLayers == LSpecInit /\ [][LNext]_vars

(***************************************************************************)
(* C22: layer filtering is directional.  Under the matrix of               *)
(* Simulation::new, in every collision result no Food-layer circle is a    *)
(* key and no BlobSight-layer or selection-layer circle is in the list of  *)
(* a circle on one of the matrix's layers, whatever the geometry; a circle *)
(* on a layer without a matrix entry collides with circles of every layer. *)
(***************************************************************************)
LayerOf(k) == physics.circles.map[k].layer

DistinctXs ==
    \A a, b \in Keys(physics.circles) :
        a # b => physics.circles.map[a].center.x # physics.circles.map[b].center.x

C23_PartnersAscendingInX ==
    (IsSome(colls) /\ DistinctXs) =>
        \A a \in DOMAIN Unwrap(colls) :
            LET list == Unwrap(colls)[a]
            IN  \A i, j \in 1..Len(list) :
                    i < j => /\ list[i] # list[j]
                             /\ physics.circles.map[list[i]].center.x
                                    < physics.circles.map[list[j]].center.x

\* A list of two partners whose keys run against their center.x: the one
\* inserted later lies to the left and comes first.
C23_Witness ==
    /\ IsSome(colls)
    /\ DistinctXs
    /\ \E a \in DOMAIN Unwrap(colls) :
         /\ Len(Unwrap(colls)[a]) = 2
         /\ Unwrap(colls)[a][1] > Unwrap(colls)[a][2]


(***************************************************************************)
(* C24: a blob with a non-zero direction and no steering target in a tick  *)
(* keeps its heading: a blob whose sight circle has no partners or sees    *)
(* nothing has no target, and a blob without a target leaves the           *)
(* integration with the direction it had; after the step its direction is  *)
(* that direction with the component of each reflected axis negated.       *)
(***************************************************************************)
\* What blob k saw in the step's snapshot.
SeenBy(k) ==
    Seen(last.before.blobs.map[k], last.before.physics.circles.map, last.before.objects,
         last.before.blobs,
         Touched(last.snapshot, last.before.blobs.map[k].sight_circle))

\* The blobs that went into the step with a heading and got no target.
Untargeted ==
    {k \in LiveBefore : /\ last.before.blobs.map[k].direction # Vzero
                        /\ last.targets[k] = None}

C24_UntargetedKeepsHeading ==
    Stepped =>
        /\ \A k \in LiveBefore : SeenBy(k) = << >> => last.targets[k] = None
        /\ \A k \in Untargeted :
             LET d0 == last.before.blobs.map[k].direction
                 i == last.integrated[k]
                 m == last.moved[k]
             IN  /\ i.direction = d0
                 /\ m.direction.x = (IF i.pos.x > size.x \/ i.pos.x < 0 THEN 0 - d0.x ELSE d0.x)
                 /\ m.direction.y = (IF i.pos.y > size.y \/ i.pos.y < 0 THEN 0 - d0.y ELSE d0.y)
                 /\ IsNaN(m.direction) = IsNaN(d0)
                 /\ k \in Keys(blobs) => blobs.map[k].direction = m.direction

\* A blob with a heading whose sight circle had partners, none of which
\* gave it a target, and that lived on: one that kept its direction as it
\* was, and one that was reflected.
C24_Witness ==
    /\ Stepped
    /\ \E k \in Untargeted \cap Keys(blobs) :
         /\ Touched(last.snapshot, last.before.blobs.map[k].sight_circle) # << >>
         /\ blobs.map[k].direction = last.before.blobs.map[k].direction
    /\ \E k \in Untargeted \cap Keys(blobs) :
         blobs.map[k].direction # last.before.blobs.map[k].direction


(***************************************************************************)
(* C25: forward references hold after every public operation: the body and *)
(* sight circle keys of a live blob k name two distinct live circles, on   *)
(* the Blob and the BlobSight layer, tagged Blob(k) and BlobSight(k); the  *)
(* circle key of a live Food k names a live circle on the Food layer       *)
(* tagged Food(k); no circle is owned by two entities.                     *)
(***************************************************************************)
\* The circle c is live, on the layer `layer` and tagged `obj`.
Owned(c, layer, obj) ==
    /\ c \in Keys(physics.circles)
    /\ physics.circles.map[c].layer = layer
    /\ c \in DOMAIN objects
    /\ objects[c] = obj

C25_ForwardReferencesHold ==
    /\ \A k \in Keys(blobs) :
         /\ blobs.map[k].circle # blobs.map[k].sight_circle
         /\ Owned(blobs.map[k].circle, Blob_LAYER, ObjBlob(k))
         /\ Owned(blobs.map[k].sight_circle, Blob_SIGHT_LAYER, ObjBlobSight(k))
    /\ \A k \in Keys(foods) : Owned(foods.map[k].circle, Food_LAYER, ObjFood(k))
    /\ \A j, k \in Keys(blobs) :
         j # k => {blobs.map[j].circle, blobs.map[j].sight_circle}
                      \cap {blobs.map[k].circle, blobs.map[k].sight_circle} = {}
    /\ \A j, k \in Keys(foods) : j # k => foods.map[j].circle # foods.map[k].circle
    /\ \A j \in Keys(blobs), k \in Keys(foods) :
         foods.map[k].circle \notin {blobs.map[j].circle, blobs.map[j].sight_circle}

\* After a step in which a Food was eaten and a blob died: a blob that lived
\* on, the Food the dead one left, and the circle of the eaten Food.
C25_Witness ==
    /\ Stepped
    /\ \E i \in 1..Len(last.eats) : last.eats[i].removed
    /\ Len(last.removed) > 0
    /\ Keys(blobs) # {}
    /\ Keys(foods) # {}
    /\ \E c \in DOMAIN objects : objects[c].kind = "Food" /\ objects[c].key \notin Keys(foods)


(***************************************************************************)
(* C26: a Food feeds blobs in at most one tick: a step feeds blobs only on *)
(* Foods that were live when it was called, and the blobs perceive only    *)
(* such Foods.  A Food-tagged circle whose Food is not in the arena is     *)
(* that of a Food eaten in an earlier step: remove_food takes the tag with *)
(* the Food, and Food keys are not reused.                                 *)
(***************************************************************************)
C26_FoodFeedsInOneTickOnly ==
    Stepped =>
        /\ \A i \in 1..Len(last.eats) : last.eats[i].food \in Keys(last.before.foods)
        /\ \A k \in LiveBefore :
             \A j \in 1..Len(SeenBy(k)) :
                 SeenBy(k)[j].object.kind = "Food"
                     => SeenBy(k)[j].object.key \in Keys(last.before.foods)


(***************************************************************************)
(* C27: every key select returns names a live entity when select returns:  *)
(* each blob key is in the blobs arena and each Food key is in the foods   *)
(* arena, also after steps in which Foods were eaten.                      *)
(***************************************************************************)
C27_SelectedKeysAreLive ==
    Selected =>
        /\ \A k \in SeqRange(last.result.blobs) : IsSome(get(blobs, k))
        /\ \A f \in SeqRange(last.result.foods) : IsSome(get(foods, f))


(***************************************************************************)
(* C28: arena confinement: when step returns, the position of every live   *)
(* blob lies in the arena, 0 <= x <= width and 0 <= y <= height, and so do *)
(* the centers of its body and sight circles, wherever the blob was        *)
(* before the step.                                                        *)
(***************************************************************************)
\* The point p lies in the arena; no comparison with a NaN holds.
InArena(p) ==
    /\ ~IsNaN(p)
    /\ 0 <= p.x /\ p.x <= size.x
    /\ 0 <= p.y /\ p.y <= size.y

C28_BlobsConfinedToArena ==
    Stepped =>
        \A k \in Keys(blobs) :
            /\ InArena(blobs.map[k].pos)
            /\ InArena(physics.circles.map[blobs.map[k].circle].center)
            /\ InArena(physics.circles.map[blobs.map[k].sight_circle].center)

=============================================================================
